---------------------------- MODULE Spec2Model ----------------------------
(***************************************************************************)
(* A model of CannyZernikeDetector (python-backend/canny_zernike_detector). *)
(*                                                                         *)
(* Grids are functions [0..rows-1 -> [0..cols-1 -> value]], indexed as the *)
(* numpy arrays are: g[i][j] is row i, column j.  Real quantities are kept *)
(* exactly where the code's comparisons depend on them (threshold ratios   *)
(* are fractions, gradients are kept doubled so that halves are integers,  *)
(* moments are kept in units of 1e-4, the masks' last printed digit) and   *)
(* in fixed point (1e-4 pixel) where the code takes a square root or a     *)
(* quotient.  A float that numpy would compute as NaN is the value NaN.    *)
(***************************************************************************)
EXTENDS Integers, Sequences, FiniteSets, TLC

VARIABLES
    cv2_bilateral,   \* what cv2.bilateralFilter does to an image with a step
    calls,           \* what the earlier calls of detect returned
    suspended,       \* the frames of the calls that other threads are in
    pc,              \* the step the call under way has reached
    args,            \* the arguments of the call under way
    gray,            \* detect: the grayscale copy of the input image
    filtered,        \* detect: the denoised image
    magnitude,       \* gradient magnitude, as 4 * |grad|^2
    direction,       \* gradient direction, as the arguments of arctan2
    suppressed,      \* the thinned magnitude grid (uint8)
    strong,          \* double_threshold: the strong grid (0 or 255)
    weak,            \* double_threshold: the weak grid (0 or 75)
    pixel_edges,     \* the edge map (uint8)
    refine_img,      \* subpixel_refinement: its img argument
    subpixel_edges   \* the point sequence, or None
vars == << cv2_bilateral, calls, suspended, pc, args, gray, filtered,
           magnitude, direction, suppressed,
           strong, weak, pixel_edges, refine_img, subpixel_edges >>

-----------------------------------------------------------------------------
(* Bounds of the model.                                                    *)

\* hysteresis called on its own: the shape of the grids, and how many
\* pixels of each grid are set
HystRows == 3
HystCols == 4
MaxStrong == 1
MaxWeak == 2

\* double_threshold called on its own: how many pixels of the thinned grid
\* (of HystRows x HystCols) are nonzero
MaxThinned == 2

\* the image given to detect or to subpixel_refinement has ExtraRows rows
\* and ExtraCols columns more than a patch; when subpixel_refinement is
\* called on its own, at most MaxMarked pixels of the edge map are marked
ExtraRows == 0
ExtraCols == 1
MaxMarked == 2

\* how many times detect is called on one detector
MaxCalls == 3

\* the gradient and non_maximum_suppression called on their own: the
\* images have at most NmsSide rows and NmsSide columns
NmsSide == 5

-----------------------------------------------------------------------------
(* Values and grids.                                                       *)

\* None, which is also the value of a variable no step has assigned yet,
\* and a list: the two are told apart by the field none
None == [none |-> TRUE, points |-> << >>]
List(seq) == [none |-> FALSE, points |-> seq]

Max(a, b) == IF a >= b THEN a ELSE b
Min(a, b) == IF a <= b THEN a ELSE b
Abs(a) == IF a >= 0 THEN a ELSE -a

Rows(g) == Cardinality(DOMAIN g)
Cols(g) == IF Rows(g) = 0 THEN 0 ELSE Cardinality(DOMAIN g[0])
Cells(rows, cols) == (0 .. rows - 1) \X (0 .. cols - 1)
CellsOf(g) == Cells(Rows(g), Cols(g))

\* np.zeros((rows, cols))
Zeros(rows, cols) == [i \in 0 .. rows - 1 |-> [j \in 0 .. cols - 1 |-> 0]]

\* the grid that holds v at the cells of S and 0 elsewhere
GridOf(rows, cols, S, v) ==
    [i \in 0 .. rows - 1 |-> [j \in 0 .. cols - 1 |->
        IF << i, j >> \in S THEN v ELSE 0]]

\* the cells of g that hold a nonzero value (pixel_edges > 0)
Marked(g) == {p \in CellsOf(g) : g[p[1]][p[2]] > 0}

\* the 8 neighbours of cell p, inside the grid or not
Neighbours8(p) ==
    {<< p[1] + di, p[2] + dj >> : di \in {-1, 0, 1}, dj \in {-1, 0, 1}}
        \ {p}

\* whether the loops of non_maximum_suppression and hysteresis, over
\* range(1, rows - 1) and range(1, cols - 1), visit cell <<i, j>>
Interior(g, i, j) ==
    /\ 1 <= i /\ i <= Rows(g) - 2
    /\ 1 <= j /\ j <= Cols(g) - 2

\* the sets of at most k elements of S
RECURSIVE UpTo(_, _)
UpTo(S, k) ==
    IF k = 0 THEN {{}}
    ELSE LET T == UpTo(S, k - 1)
         IN  T \cup {t \cup {x} : t \in T, x \in S}

-----------------------------------------------------------------------------
(* Denoising (OpenCV), the gradient and non_maximum_suppression.           *)

\* f[0] + ... + f[k]
RECURSIVE SumTo(_, _)
SumTo(f, k) == IF k < 0 THEN 0 ELSE f[k] + SumTo(f, k - 1)

\* the integer part of the square root of m >= 0, sought between lo and hi
RECURSIVE IsqrtIn(_, _, _)
IsqrtIn(m, lo, hi) ==
    IF lo >= hi THEN lo
    ELSE LET mid == (lo + hi + 1) \div 2
         IN  IF mid * mid <= m THEN IsqrtIn(m, mid, hi)
             ELSE IsqrtIn(m, lo, mid - 1)
Isqrt(m) == IsqrtIn(m, 0, Min(m, 46340))

\* OpenCV's default border (BORDER_REFLECT_101): index k of an axis of n
\* cells, mirrored about the first and the last cell until it lies on the
\* axis; an axis of one cell gives that cell
RECURSIVE Reflect(_, _)
Reflect(k, n) ==
    IF n = 1 THEN 0
    ELSE IF k < 0 THEN Reflect(-k, n)
    ELSE IF k >= n THEN Reflect(2 * (n - 1) - k, n)
    ELSE k

\* cv2.GaussianBlur(gray, (5, 5), 1.4) on a uint8 image: the 5-tap kernel
\* of sigma 1.4 in units of 1/256, applied along both axes, rounded
GaussianBlur(g) ==
    LET w == << 28, 61, 78, 61, 28 >>
        rows == Rows(g)
        cols == Cols(g)
    IN  [i \in DOMAIN g |-> [j \in DOMAIN g[i] |->
            LET term == [k \in 0 .. 24 |->
                    w[(k \div 5) + 1] * w[(k % 5) + 1]
                        * g[Reflect(i + (k \div 5) - 2, rows)]
                           [Reflect(j + (k % 5) - 2, cols)]]
            IN  (SumTo(term, 24) + 32768) \div 65536]]

\* cv2.bilateralFilter(img, 9, 75, 75): each pixel becomes a normalized
\* weighted mean of its neighbourhood, the weights falling with distance
\* and with contrast.  The filter is OpenCV's, a function of the image
\* that the model does not compute: it either keeps the image as it is or
\* smooths it, the same way at every call.
BilateralBehaviours == {"keeps", "smooths"}
BilateralFilter(g, behaviour) ==
    IF behaviour = "keeps" THEN g ELSE GaussianBlur(g)

Hx == << << -1, 0, 1 >>, << -2, 0, 2 >>, << -1, 0, 1 >> >>
Hy == << << -1, -2, -1 >>, << 0, 0, 0 >>, << 1, 2, 1 >> >>
H45 == << << 0, 1, 2 >>, << -1, 0, 1 >>, << -2, -1, 0 >> >>
H135 == << << -2, -1, 0 >>, << -1, 0, 1 >>, << 0, 1, 2 >> >>

\* cv2.filter2D(img, cv2.CV_64F, H) at row i, column j: the correlation of
\* the 3 x 3 neighbourhood with H
Filter2D(img, H, i, j) ==
    LET rows == Rows(img)
        cols == Cols(img)
        term == [k \in 0 .. 8 |->
                    H[(k \div 3) + 1][(k % 3) + 1]
                        * img[Reflect(i + (k \div 3) - 1, rows)]
                             [Reflect(j + (k % 3) - 1, cols)]]
    IN  SumTo(term, 8)

\* fx = Px + (P45 + P135) / 2 and fy = Py + (P45 - P135) / 2, both doubled
GradientAt(img, i, j) ==
    LET Px == Filter2D(img, Hx, i, j)
        Py == Filter2D(img, Hy, i, j)
        P45 == Filter2D(img, H45, i, j)
        P135 == Filter2D(img, H135, i, j)
    IN  [fx |-> 2 * Px + P45 + P135, fy |-> 2 * Py + P45 - P135]

\* direction = np.arctan2(fy, fx), kept as its arguments
DirectionOf(img) ==
    [i \in DOMAIN img |-> [j \in DOMAIN img[i] |-> GradientAt(img, i, j)]]

\* magnitude = np.sqrt(fx**2 + fy**2), kept as 4 * magnitude^2
MagnitudeOf(img) ==
    [i \in DOMAIN img |-> [j \in DOMAIN img[i] |->
        LET d == GradientAt(img, i, j)
        IN  d.fx * d.fx + d.fy * d.fy]]

\* (faulty variant) the angle is that of arctan2(fx, fy)
AngleBucketSwapped(d) ==
    LET fy == IF d.fx < 0 THEN -d.fx ELSE d.fx
        fx == IF d.fx < 0 THEN -d.fy ELSE d.fy
        ax == Abs(fx)
        below22 == (fy + ax) * (fy + ax) < 2 * ax * ax
        below67 == fy <= ax \/ (fy - ax) * (fy - ax) < 2 * ax * ax
    IN  IF fy = 0 THEN 0
        ELSE IF ax = 0 THEN 90
        ELSE IF below22 THEN 0
        ELSE IF below67 THEN (IF fx > 0 THEN 45 ELSE 135)
        ELSE 90

\* the branch of non_maximum_suppression that the angle of arctan2(fy, fx)
\* selects, the angle taken in degrees and raised by 180 when negative:
\* 0 for [0, 22.5) and [157.5, 180], 45 for [22.5, 67.5), 90 for
\* [67.5, 112.5), 135 for [112.5, 157.5).  tan 22.5 = sqrt 2 - 1 and
\* tan 67.5 = sqrt 2 + 1, so the tests are on squares.
AngleBucket(d) ==
    LET fy == IF d.fy < 0 THEN -d.fy ELSE d.fy
        fx == IF d.fy < 0 THEN -d.fx ELSE d.fx
        ax == Abs(fx)
        below22 == (fy + ax) * (fy + ax) < 2 * ax * ax
        below67 == fy <= ax \/ (fy - ax) * (fy - ax) < 2 * ax * ax
    IN  IF fy = 0 THEN 0
        ELSE IF ax = 0 THEN 90
        ELSE IF below22 THEN 0
        ELSE IF below67 THEN (IF fx > 0 THEN 45 ELSE 135)
        ELSE 90

\* (faulty variant) a pixel is kept only if it exceeds both neighbours
SuppressedOfStrict(mag, dir) ==
    [i \in DOMAIN mag |-> [j \in DOMAIN mag[i] |->
        IF ~Interior(mag, i, j) THEN 0
        ELSE LET b == AngleBucket(dir[i][j])
                 q == CASE b = 0 -> mag[i][j + 1]
                        [] b = 45 -> mag[i + 1][j - 1]
                        [] b = 90 -> mag[i + 1][j]
                        [] b = 135 -> mag[i - 1][j - 1]
                 r == CASE b = 0 -> mag[i][j - 1]
                        [] b = 45 -> mag[i - 1][j + 1]
                        [] b = 90 -> mag[i - 1][j]
                        [] b = 135 -> mag[i + 1][j + 1]
             IN  IF mag[i][j] > q /\ mag[i][j] > r
                 THEN Min(Isqrt(mag[i][j]) \div 2, 255)
                 ELSE 0]]

\* (faulty variant) suppressed starts as the clamped magnitude and not as
\* zeros, so that the pixels the loops do not visit keep a value
SuppressedOfWithRing(mag, dir) ==
    [i \in DOMAIN mag |-> [j \in DOMAIN mag[i] |->
        IF ~Interior(mag, i, j) THEN Min(Isqrt(mag[i][j]) \div 2, 255)
        ELSE LET b == AngleBucket(dir[i][j])
                 q == CASE b = 0 -> mag[i][j + 1]
                        [] b = 45 -> mag[i + 1][j - 1]
                        [] b = 90 -> mag[i + 1][j]
                        [] b = 135 -> mag[i - 1][j - 1]
                 r == CASE b = 0 -> mag[i][j - 1]
                        [] b = 45 -> mag[i - 1][j + 1]
                        [] b = 90 -> mag[i - 1][j]
                        [] b = 135 -> mag[i + 1][j + 1]
             IN  IF mag[i][j] >= q /\ mag[i][j] >= r
                 THEN Min(Isqrt(mag[i][j]) \div 2, 255)
                 ELSE 0]]

\* (faulty variant) the magnitude is cast to uint8 without min(., 255),
\* which keeps its low 8 bits
SuppressedOfWrapping(mag, dir) ==
    [i \in DOMAIN mag |-> [j \in DOMAIN mag[i] |->
        IF ~Interior(mag, i, j) THEN 0
        ELSE LET b == AngleBucket(dir[i][j])
                 q == CASE b = 0 -> mag[i][j + 1]
                        [] b = 45 -> mag[i + 1][j - 1]
                        [] b = 90 -> mag[i + 1][j]
                        [] b = 135 -> mag[i - 1][j - 1]
                 r == CASE b = 0 -> mag[i][j - 1]
                        [] b = 45 -> mag[i - 1][j + 1]
                        [] b = 90 -> mag[i - 1][j]
                        [] b = 135 -> mag[i + 1][j + 1]
             IN  IF mag[i][j] >= q /\ mag[i][j] >= r
                 THEN (Isqrt(mag[i][j]) \div 2) % 256
                 ELSE 0]]

\* non_maximum_suppression(magnitude, direction)
SuppressedOf(mag, dir) ==
    [i \in DOMAIN mag |-> [j \in DOMAIN mag[i] |->
        IF ~Interior(mag, i, j) THEN 0
        ELSE LET b == AngleBucket(dir[i][j])
                 q == CASE b = 0 -> mag[i][j + 1]
                        [] b = 45 -> mag[i + 1][j - 1]
                        [] b = 90 -> mag[i + 1][j]
                        [] b = 135 -> mag[i - 1][j - 1]
                 r == CASE b = 0 -> mag[i][j - 1]
                        [] b = 45 -> mag[i - 1][j + 1]
                        [] b = 90 -> mag[i - 1][j]
                        [] b = 135 -> mag[i + 1][j + 1]
             IN  IF mag[i][j] >= q /\ mag[i][j] >= r
                 THEN Min(Isqrt(mag[i][j]) \div 2, 255)
                 ELSE 0]]

-----------------------------------------------------------------------------
(* double_threshold and hysteresis.                                        *)

STRONG == 255
WEAK == 75

\* A ratio is a fraction [num, den], den > 0.
Ratio(n, d) == [num |-> n, den |-> d]

\* img.max()
GridMax(g) ==
    LET vals == {g[p[1]][p[2]] : p \in CellsOf(g)}
    IN  CHOOSE m \in vals : \A v \in vals : v <= m

\* (faulty variant) the ratio measured down from the maximum
HighThresholdFromTop(img, high_ratio) ==
    Ratio(GridMax(img) * (high_ratio.den - high_ratio.num), high_ratio.den)

\* high_threshold = img.max() * high_ratio, low_threshold = high_threshold *
\* low_ratio; each as a fraction
HighThreshold(img, high_ratio) ==
    Ratio(GridMax(img) * high_ratio.num, high_ratio.den)
LowThreshold(img, low_ratio, high_ratio) ==
    LET h == HighThreshold(img, high_ratio)
    IN  Ratio(h.num * low_ratio.num, h.den * low_ratio.den)

\* v >= t and v <= t for an integer v and a fraction t
GeqRatio(v, t) == v * t.den >= t.num
LeqRatio(v, t) == v * t.den <= t.num

\* strong[np.where(img >= high_threshold)] = 255
StrongOf(img, low_ratio, high_ratio) ==
    LET high == HighThreshold(img, high_ratio)
    IN  [i \in DOMAIN img |-> [j \in DOMAIN img[i] |->
            IF GeqRatio(img[i][j], high) THEN STRONG ELSE 0]]

\* weak[np.where((img <= high_threshold) & (img >= low_threshold))] = 75
WeakOf(img, low_ratio, high_ratio) ==
    LET high == HighThreshold(img, high_ratio)
        low == LowThreshold(img, low_ratio, high_ratio)
    IN  [i \in DOMAIN img |-> [j \in DOMAIN img[i] |->
            IF LeqRatio(img[i][j], high) /\ GeqRatio(img[i][j], low)
            THEN WEAK ELSE 0]]

\* (faulty variant) only the 4 neighbours that share a side are looked at
HasStrongNeighbour4(s, i, j) ==
    \E q \in {<< i + 1, j >>, << i - 1, j >>, << i, j + 1 >>, << i, j - 1 >>} :
        s[q[1]][q[2]] = STRONG

\* one of the 8 neighbours of the interior cell <<i, j>> is 255 in strong
HasStrongNeighbour(s, i, j) ==
    \E q \in Neighbours8(<< i, j >>) : s[q[1]][q[2]] = STRONG

\* (faulty variant) the neighbours are read from the map being written,
\* so that a promoted pixel promotes its own weak neighbours
HysteresisChained(s, w) ==
    LET once == [i \in DOMAIN s |-> [j \in DOMAIN s[i] |->
                    IF /\ Interior(s, i, j)
                       /\ w[i][j] = WEAK
                       /\ HasStrongNeighbour(s, i, j)
                    THEN STRONG
                    ELSE s[i][j]]]
    IN  [i \in DOMAIN s |-> [j \in DOMAIN s[i] |->
            IF /\ Interior(s, i, j)
               /\ w[i][j] = WEAK
               /\ HasStrongNeighbour(once, i, j)
            THEN STRONG
            ELSE once[i][j]]]

\* (faulty variant) a weak pixel that is not promoted keeps its value 75
HysteresisKeepsWeak(s, w) ==
    [i \in DOMAIN s |-> [j \in DOMAIN s[i] |->
        IF /\ Interior(s, i, j)
           /\ w[i][j] = WEAK
           /\ HasStrongNeighbour(s, i, j)
        THEN STRONG
        ELSE Max(s[i][j], w[i][j])]]

\* hysteresis(strong, weak): edges is a copy of strong in which every
\* interior cell that is 75 in weak and has a 255 neighbour in strong is 255
HysteresisOf(s, w) ==
    [i \in DOMAIN s |-> [j \in DOMAIN s[i] |->
        IF /\ Interior(s, i, j)
           /\ w[i][j] = WEAK
           /\ HasStrongNeighbour(s, i, j)
        THEN STRONG
        ELSE s[i][j]]]

-----------------------------------------------------------------------------
(* The Zernike masks, in units of 1e-4, and the moments of a patch.        *)

\* self.n, the side of the patch and of the masks
N == 7
\* the masks and the moments are integers in units of 1 / UNIT; lengths
\* and the normalized distance l are in fixed point with the same unit
UNIT == 10000
\* np.clip(l, -0.99, 0.99), in units of 1 / UNIT
CLIP == 9900

Z00Mask ==
    << <<   0, 287, 686, 807, 686, 287,   0 >>,
       << 287, 815, 816, 816, 816, 815, 287 >>,
       << 686, 816, 816, 816, 816, 816, 686 >>,
       << 807, 816, 816, 816, 816, 816, 807 >>,
       << 686, 816, 816, 816, 816, 816, 686 >>,
       << 287, 815, 816, 816, 816, 815, 287 >>,
       <<   0, 287, 686, 807, 686, 287,   0 >> >>

Z11RMask ==
    << <<    0, -150, -190, 0, 190, 150,   0 >>,
       << -224, -466, -233, 0, 233, 466, 224 >>,
       << -573, -466, -233, 0, 233, 466, 573 >>,
       << -690, -466, -233, 0, 233, 466, 690 >>,
       << -573, -466, -233, 0, 233, 466, 573 >>,
       << -224, -466, -233, 0, 233, 466, 224 >>,
       <<    0, -150, -190, 0, 190, 150,   0 >> >>

Z11IMask ==
    << <<    0, -224, -573, -690, -573, -224,    0 >>,
       << -150, -466, -466, -466, -466, -466, -150 >>,
       << -190, -233, -233, -233, -233, -233, -190 >>,
       <<    0,    0,    0,    0,    0,    0,    0 >>,
       <<  190,  233,  233,  233,  233,  233,  190 >>,
       <<  150,  466,  466,  466,  466,  466,  150 >>,
       <<    0,  224,  573,  690,  573,  224,    0 >> >>

Z20Mask ==
    << <<   0,  225,  394,  396,  394,  225,   0 >>,
       << 225,  271, -128, -261, -128,  271, 225 >>,
       << 394, -128, -528, -661, -528, -128, 394 >>,
       << 396, -261, -661, -794, -661, -261, 396 >>,
       << 394, -128, -528, -661, -528, -128, 394 >>,
       << 225,  271, -128, -261, -128,  271, 225 >>,
       <<   0,  225,  394,  396,  394,  225,   0 >> >>

\* np.sum(img_patch * mask), the patch being the N x N cells of img around
\* row y, column x (img[y - half_n:y + half_n + 1, x - half_n:x + half_n + 1])
MaskSum(img, y, x, mask) ==
    LET half_n == N \div 2
        term == [k \in 0 .. N * N - 1 |->
                    img[y - half_n + (k \div N)][x - half_n + (k % N)]
                        * mask[(k \div N) + 1][(k % N) + 1]]
    IN  SumTo(term, N * N - 1)

\* (faulty variant) the patch is cut from the left edge of the image and
\* not around column x
ZernikeMomentsFromLeft(img, y, x) ==
    [Z00  |-> MaskSum(img, y, N \div 2, Z00Mask),
     Z11R |-> MaskSum(img, y, N \div 2, Z11RMask),
     Z11I |-> MaskSum(img, y, N \div 2, Z11IMask),
     Z20  |-> MaskSum(img, y, N \div 2, Z20Mask)]

\* calculate_zernike_moments: Z00, Z11 = Z11R + i Z11I, Z20
ZernikeMoments(img, y, x) ==
    [Z00  |-> MaskSum(img, y, x, Z00Mask),
     Z11R |-> MaskSum(img, y, x, Z11RMask),
     Z11I |-> MaskSum(img, y, x, Z11IMask),
     Z20  |-> MaskSum(img, y, x, Z20Mask)]

-----------------------------------------------------------------------------
(* Floats, and subpixel_edge_parameters.                                   *)

\* A float is NaN or a finite value v / UNIT.
NaN == [nan |-> TRUE, v |-> 0]
Fixed(v) == [nan |-> FALSE, v |-> v]
\* float(k) of an integer k
Float(k) == Fixed(k * UNIT)
IsFinite(f) == ~f.nan

Sign(a) == IF a > 0 THEN 1 ELSE IF a < 0 THEN -1 ELSE 0

\* abs(Z11) = sqrt(a^2 + b^2): the operands are scaled down so that the
\* squares fit the integers, which keeps 4 significant digits
Hypot(a, b) ==
    LET s == (Max(Abs(a), Abs(b)) \div 20000) + 1
        as == Abs(a) \div s
        bs == Abs(b) \div s
    IN  Isqrt(as * as + bs * bs) * s

\* p / q in units of 1 / UNIT for 0 <= p <= q, q > 0, rounded towards 0
Quotient(p, q) ==
    LET t == (q \div 200000) + 1
    IN  Min(((p \div t) * UNIT) \div (q \div t), UNIT)

\* l = (Z20 / (Z11 * exp(-1j * phi))).real, clipped to [-0.99, 0.99].
\* Z11 * exp(-1j * phi) is abs(Z11).  When Z11 is 0 numpy's division gives
\* Z20 / 0.0: inf or -inf (clipped to 0.99 or -0.99) for a nonzero Z20 and
\* NaN for 0 / 0, with a RuntimeWarning and no exception.
DistanceL(m) ==
    LET mod == Hypot(m.Z11R, m.Z11I)
    IN  IF m.Z11R = 0 /\ m.Z11I = 0
        THEN IF m.Z20 = 0 THEN NaN ELSE Fixed(Sign(m.Z20) * CLIP)
        ELSE IF Abs(m.Z20) >= mod THEN Fixed(Sign(m.Z20) * CLIP)
        ELSE Fixed(Sign(m.Z20) * Min(Quotient(Abs(m.Z20), mod), CLIP))

\* np.cos(phi) and np.sin(phi) for phi = np.arctan2(Z11.imag, Z11.real), in
\* units of 1 / UNIT; arctan2(0, 0) is 0
CosPhi(m) ==
    IF m.Z11R = 0 /\ m.Z11I = 0 THEN UNIT
    ELSE Sign(m.Z11R) * Quotient(Min(Abs(m.Z11R), Hypot(m.Z11R, m.Z11I)),
                                 Hypot(m.Z11R, m.Z11I))
SinPhi(m) ==
    IF m.Z11R = 0 /\ m.Z11I = 0 THEN 0
    ELSE Sign(m.Z11I) * Quotient(Min(Abs(m.Z11I), Hypot(m.Z11R, m.Z11I)),
                                 Hypot(m.Z11R, m.Z11I))

\* subpixel_edge_parameters: phi (as its cosine and sine) and l; raised
\* tells whether the computation raises an exception, which no operation
\* on numpy scalars does.  (h and k are computed and not used.)
SubpixelEdgeParameters(m) ==
    [raised |-> FALSE, cos |-> CosPhi(m), sin |-> SinPhi(m),
     l |-> DistanceL(m)]

\* a / b rounded towards 0
DivTrunc(a, b) == Sign(a) * (Abs(a) \div b)

\* (faulty variant) the offset is taken against the direction of phi
OffsetReversed(l, c) ==
    IF l.nan THEN NaN ELSE Fixed(-DivTrunc(N * l.v * c, 4 * UNIT))

\* (self.n / 2) * (l / 2) * c for c = cos(phi) or sin(phi)
Offset(l, c) ==
    IF l.nan THEN NaN ELSE Fixed(DivTrunc(N * l.v * c, 4 * UNIT))

\* a + b for an integer a and a float b
AddFloat(a, b) == IF b.nan THEN NaN ELSE Fixed(a * UNIT + b.v)

-----------------------------------------------------------------------------
(* subpixel_refinement.                                                    *)

\* np.argwhere scans row by row: p comes before q
RowMajorBefore(p, q) == p[1] < q[1] \/ (p[1] = q[1] /\ p[2] < q[2])

\* (faulty variant) the scan runs column by column
EdgePointByColumn(edges, k) ==
    LET marked == Marked(edges)
    IN  CHOOSE p \in marked :
            Cardinality({q \in marked :
                q[2] < p[2] \/ (q[2] = p[2] /\ q[1] < p[1])}) = k - 1

\* the k-th marked pixel << y, x >> of the scan of np.argwhere, which runs
\* through row i and the rows below it, each row from left to right
RECURSIVE ScanFrom(_, _, _)
ScanFrom(edges, i, k) ==
    LET cols == {j \in DOMAIN edges[i] : edges[i][j] > 0}
        n == Cardinality(cols)
    IN  IF k <= n
        THEN << i, CHOOSE j \in cols :
                      Cardinality({h \in cols : h < j}) = k - 1 >>
        ELSE ScanFrom(edges, i + 1, k - n)

\* edge_points[k - 1], the k-th row << y, x >> of np.argwhere(pixel_edges > 0)
EdgePoint(edges, k) == ScanFrom(edges, 0, k)

\* (faulty variant) the last row and column whose patch fits are taken
\* as outside
InBorderBandStrict(img, y, x) ==
    LET half_n == N \div 2
    IN  \/ y - half_n < 0 \/ y + half_n + 1 >= Rows(img)
        \/ x - half_n < 0 \/ x + half_n + 1 >= Cols(img)

\* the patch around row y, column x does not lie within the image
InBorderBand(img, y, x) ==
    LET half_n == N \div 2
    IN  \/ y - half_n < 0 \/ y + half_n + 1 > Rows(img)
        \/ x - half_n < 0 \/ x + half_n + 1 > Cols(img)

\* A point is the tuple (x, y) the code appends; src (the pixel << y, x >>
\* it was computed for) and via (the branch that appended it) are kept
\* beside it for the properties and are no part of the tuple.
Point(fx, fy, y, x, via) ==
    [x |-> fx, y |-> fy, src |-> << y, x >>, via |-> via]

\* (faulty variant) the division is Python's, which raises
\* ZeroDivisionError on a zero Z11, and no handler stands around it
RefineUnguarded(img, y, x) ==
    IF InBorderBand(img, y, x)
    THEN Point(Float(x), Float(y), y, x, "border")
    ELSE LET m == ZernikeMoments(img, y, x)
             e == SubpixelEdgeParameters(m)
         IN  IF m.Z11R = 0 /\ m.Z11I = 0
             THEN Point(Float(x), Float(y), y, x, "raise")
             ELSE Point(AddFloat(x, Offset(e.l, e.cos)),
                        AddFloat(y, Offset(e.l, e.sin)), y, x, "moments")

\* one pass of the loop of subpixel_refinement, for the edge point at row
\* y, column x: the point it appends.  (patch.shape is (n, n) whenever the
\* patch lies within the image.)
Refine(img, y, x) ==
    IF InBorderBand(img, y, x)
    THEN Point(Float(x), Float(y), y, x, "border")
    ELSE LET m == ZernikeMoments(img, y, x)
             e == SubpixelEdgeParameters(m)
         IN  IF e.raised
             THEN Point(Float(x), Float(y), y, x, "except")
             ELSE Point(AddFloat(x, Offset(e.l, e.cos)),
                        AddFloat(y, Offset(e.l, e.sin)), y, x, "moments")

\* for point in edge_points: one pass of the loop
RefineStep ==
    /\ pc = "refine"
    /\ Len(subpixel_edges.points) < Cardinality(Marked(pixel_edges))
    /\ LET p == EdgePoint(pixel_edges, Len(subpixel_edges.points) + 1)
           pt == Refine(refine_img, p[1], p[2])
       IN  IF pt.via = "raise"
           THEN pc' = "raised" /\ UNCHANGED subpixel_edges
           ELSE /\ pc' = pc
                /\ subpixel_edges' = List(Append(subpixel_edges.points, pt))
    /\ UNCHANGED << cv2_bilateral, calls, suspended, args,
                    gray, filtered, magnitude, direction, suppressed,
                    strong, weak, pixel_edges, refine_img >>

\* return subpixel_edges
RefineReturn ==
    /\ pc = "refine"
    /\ Len(subpixel_edges.points) = Cardinality(Marked(pixel_edges))
    /\ pc' = "done"
    /\ UNCHANGED << cv2_bilateral, calls, suspended, args,
                    gray, filtered, magnitude, direction, suppressed,
                    strong, weak, pixel_edges, refine_img, subpixel_edges >>

-----------------------------------------------------------------------------
(* Images.                                                                 *)

\* the gray levels of the images: black, and the two sides of a step
Dark == 50
Bright == 200
Intensities == {0, Dark, Bright}

\* every pixel at level a
ConstImage(rows, cols, a) ==
    [i \in 0 .. rows - 1 |-> [j \in 0 .. cols - 1 |-> a]]

\* a vertical step: columns < c at level a, columns >= c at level b
VStepImage(rows, cols, c, a, b) ==
    [i \in 0 .. rows - 1 |-> [j \in 0 .. cols - 1 |->
        IF j < c THEN a ELSE b]]

\* a horizontal step: rows < r at level a, rows >= r at level b
HStepImage(rows, cols, r, a, b) ==
    [i \in 0 .. rows - 1 |-> [j \in 0 .. cols - 1 |->
        IF i < r THEN a ELSE b]]

\* a corner: level a in the rows < r of the columns < c, level b elsewhere
CornerImage(rows, cols, r, c, a, b) ==
    [i \in 0 .. rows - 1 |-> [j \in 0 .. cols - 1 |->
        IF i < r /\ j < c THEN a ELSE b]]

\* two vertical steps: columns < c1 at level a, columns from c1 to c2 - 1
\* at level b, columns >= c2 at level c
BandsImage(rows, cols, c1, c2, a, b, c) ==
    [i \in 0 .. rows - 1 |-> [j \in 0 .. cols - 1 |->
        IF j < c1 THEN a ELSE IF j < c2 THEN b ELSE c]]

\* the images of a shape: the constant ones and the steps between two
\* different levels
Images(rows, cols) ==
    {ConstImage(rows, cols, a) : a \in Intensities}
    \cup {VStepImage(rows, cols, c, ab[1], ab[2]) :
             c \in 1 .. cols - 1,
             ab \in {<< Dark, Bright >>, << Bright, Dark >>}}
    \cup {HStepImage(rows, cols, r, ab[1], ab[2]) :
             r \in 1 .. rows - 1,
             ab \in {<< Dark, Bright >>, << Bright, Dark >>}}

-----------------------------------------------------------------------------
(* subpixel_refinement called on its own, on an image and an edge map.     *)

RefRows == N + ExtraRows
RefCols == N + ExtraCols

\* the images refined: black, constant, and a step of each direction
\* through or beside the middle of the image
RefineImages ==
    {ConstImage(RefRows, RefCols, 0), ConstImage(RefRows, RefCols, Dark),
     VStepImage(RefRows, RefCols, N \div 2, Dark, Bright),
     VStepImage(RefRows, RefCols, (N \div 2) + 1, Dark, Bright),
     HStepImage(RefRows, RefCols, (N \div 2) + 1, Bright, Dark)}

\* the rows (columns) of an image of n rows at which the border test of
\* the loop changes its answer, with the first and the last
ProbeIndices(n) ==
    LET half_n == N \div 2
    IN  {0, half_n - 1, half_n, n - half_n - 1, n - half_n, n - 1}
ProbeCells == ProbeIndices(RefRows) \X ProbeIndices(RefCols)

InitRefine ==
    /\ pc = "refine"
    /\ args = [call |-> "subpixel_refinement"]
    /\ cv2_bilateral = None /\ calls = {} /\ suspended = << >>
    /\ refine_img \in RefineImages
    /\ \E S \in UpTo(ProbeCells, MaxMarked) :
          pixel_edges = GridOf(RefRows, RefCols, S, STRONG)
    /\ subpixel_edges = List(<< >>)
    /\ gray = None /\ filtered = None
    /\ magnitude = None /\ direction = None /\ suppressed = None
    /\ strong = None /\ weak = None

SpecRefine == InitRefine /\ [][RefineStep \/ RefineReturn]_vars

-----------------------------------------------------------------------------
(* subpixel_refinement on edge maps marked where the patch fits.           *)

\* the pixels at the corners of the region whose patches lie within the
\* image, and two pixels of the border band
PatchCells ==
    LET half_n == N \div 2
    IN  ({half_n, RefRows - half_n - 1} \X {half_n, RefCols - half_n - 1})
            \cup {<< 0, 0 >>, << half_n, half_n - 1 >>}

InitPatch ==
    /\ pc = "refine"
    /\ args = [call |-> "subpixel_refinement"]
    /\ cv2_bilateral = None /\ calls = {} /\ suspended = << >>
    /\ refine_img \in RefineImages
    /\ \E S \in UpTo(PatchCells, MaxMarked) :
          pixel_edges = GridOf(RefRows, RefCols, S, STRONG)
    /\ subpixel_edges = List(<< >>)
    /\ gray = None /\ filtered = None
    /\ magnitude = None /\ direction = None /\ suppressed = None
    /\ strong = None /\ weak = None

SpecPatch == InitPatch /\ [][RefineStep \/ RefineReturn]_vars

-----------------------------------------------------------------------------
(* hysteresis called on its own, on arbitrary strong and weak grids.       *)

HystCells == Cells(HystRows, HystCols)

InitHyst ==
    /\ pc = "hysteresis"
    /\ args = [call |-> "hysteresis"]
    /\ cv2_bilateral = None /\ calls = {} /\ suspended = << >>
    /\ \E S \in UpTo(HystCells, MaxStrong), W \in UpTo(HystCells, MaxWeak) :
          /\ strong = GridOf(HystRows, HystCols, S, STRONG)
          /\ weak = GridOf(HystRows, HystCols, W, WEAK)
    /\ gray = None /\ filtered = None
    /\ magnitude = None /\ direction = None /\ suppressed = None
    /\ pixel_edges = None /\ refine_img = None /\ subpixel_edges = None

\* (faulty variant) edges is strong itself and not a copy of it, so that
\* the promoted pixels are written into the caller's grid
HysteresisInPlace ==
    /\ pc = "hysteresis"
    /\ pixel_edges' = HysteresisOf(strong, weak)
    /\ strong' = pixel_edges'
    /\ pc' = IF args.call = "detect" THEN "subpixel" ELSE "done"
    /\ UNCHANGED << cv2_bilateral, calls, suspended, args,
                    gray, filtered, magnitude, direction, suppressed,
                    weak, refine_img, subpixel_edges >>

\* pixel_edges = self.hysteresis(strong, weak)
HysteresisStep ==
    /\ pc = "hysteresis"
    /\ pixel_edges' = HysteresisOf(strong, weak)
    /\ pc' = IF args.call = "detect" THEN "subpixel" ELSE "done"
    /\ UNCHANGED << cv2_bilateral, calls, suspended, args,
                    gray, filtered, magnitude, direction, suppressed,
                    strong, weak, refine_img, subpixel_edges >>

SpecHyst == InitHyst /\ [][HysteresisStep]_vars

-----------------------------------------------------------------------------
(* improved_canny_gradient, then non_maximum_suppression, on an image.     *)

\* a level close to Dark: a step between the two has a gradient below 255
Faint == 60

\* the two sides of the steps and corners: high contrast either way, and
\* low contrast
Contrasts == {<< Dark, Bright >>, << Bright, Dark >>, << Dark, Faint >>}

\* the images of a shape: constant, and a step or a corner at each place
NmsImagesOf(rows, cols) ==
    {ConstImage(rows, cols, a) : a \in Intensities}
    \cup {VStepImage(rows, cols, c, ab[1], ab[2]) :
             c \in 1 .. cols - 1, ab \in Contrasts}
    \cup {HStepImage(rows, cols, r, ab[1], ab[2]) :
             r \in 1 .. rows - 1, ab \in Contrasts}
    \cup {CornerImage(rows, cols, rc[1], rc[2], ab[1], ab[2]) :
             rc \in (1 .. rows - 1) \X (1 .. cols - 1), ab \in Contrasts}

\* the images have from 1 to NmsSide rows and columns
NmsImages ==
    UNION {NmsImagesOf(rc[1], rc[2]) : rc \in (1 .. NmsSide) \X (1 .. NmsSide)}

InitNms ==
    /\ pc = "gradient"
    /\ cv2_bilateral = None /\ calls = {} /\ suspended = << >>
    /\ \E im \in NmsImages :
          /\ args = [call |-> "improved_canny_gradient", img |-> im]
          /\ filtered = im
    /\ gray = None
    /\ magnitude = None /\ direction = None /\ suppressed = None
    /\ strong = None /\ weak = None
    /\ pixel_edges = None /\ refine_img = None /\ subpixel_edges = None

-----------------------------------------------------------------------------
(* double_threshold, then hysteresis, on an arbitrary thinned grid.        *)

\* the values a nonzero pixel of the thinned grid takes
Levels == {50, 100, 255}

\* threshold ratios, as detect's defaults give them and others in (0, 1)
LowRatios == {Ratio(5, 100), Ratio(50, 100)}
HighRatios == {Ratio(15, 100), Ratio(50, 100), Ratio(90, 100)}

\* the thinned grid that holds lv[p] at each cell p of S and 0 elsewhere
ThinnedGrid(S, lv) ==
    [i \in 0 .. HystRows - 1 |-> [j \in 0 .. HystCols - 1 |->
        IF << i, j >> \in S THEN lv[<< i, j >>] ELSE 0]]

\* (faulty variant) the detector keeps the thresholds of its first call
RatiosOfFirstCall(a) ==
    LET b == IF calls = {} THEN a ELSE (CHOOSE r \in calls : TRUE).args
    IN  IF b.call # "detect"
        THEN [low |-> b.low_ratio, high |-> b.high_ratio]
        ELSE IF b.high_threshold.num > b.high_threshold.den
        THEN [low |-> Ratio(b.low_threshold.num, b.low_threshold.den * 255),
              high |-> Ratio(b.high_threshold.num,
                             b.high_threshold.den * 255)]
        ELSE [low |-> b.low_threshold, high |-> b.high_threshold]

\* the ratios double_threshold is called with: its own arguments, or in
\* detect the thresholds, divided by 255.0 when high_threshold > 1
RatiosOf(a) ==
    IF a.call # "detect"
    THEN [low |-> a.low_ratio, high |-> a.high_ratio]
    ELSE IF a.high_threshold.num > a.high_threshold.den
    THEN [low |-> Ratio(a.low_threshold.num, a.low_threshold.den * 255),
          high |-> Ratio(a.high_threshold.num, a.high_threshold.den * 255)]
    ELSE [low |-> a.low_threshold, high |-> a.high_threshold]

InitThresh ==
    /\ pc = "threshold"
    /\ cv2_bilateral = None /\ calls = {} /\ suspended = << >>
    /\ \E lr \in LowRatios, hr \in HighRatios :
          args = [call |-> "double_threshold", low_ratio |-> lr,
                  high_ratio |-> hr]
    /\ \E S \in UpTo(HystCells, MaxThinned) : \E lv \in [S -> Levels] :
          suppressed = ThinnedGrid(S, lv)
    /\ gray = None /\ filtered = None
    /\ magnitude = None /\ direction = None
    /\ strong = None /\ weak = None
    /\ pixel_edges = None /\ refine_img = None /\ subpixel_edges = None

\* strong, weak = self.double_threshold(suppressed, low_ratio, high_ratio)
ThresholdStep ==
    /\ pc = "threshold"
    /\ LET r == RatiosOf(args)
       IN  /\ strong' = StrongOf(suppressed, r.low, r.high)
           /\ weak' = WeakOf(suppressed, r.low, r.high)
    /\ pc' = "hysteresis"
    /\ UNCHANGED << cv2_bilateral, calls, suspended, args,
                    gray, filtered, magnitude, direction, suppressed,
                    pixel_edges, refine_img, subpixel_edges >>

SpecThresh == InitThresh /\ [][ThresholdStep \/ HysteresisStep]_vars

-----------------------------------------------------------------------------
(* detect.                                                                 *)

\* the thresholds detect is called with: its defaults, on the 0-255 scale,
\* the ratios 0.05 and 0.15, a low ratio above the high one, and a low
\* ratio of 0
DetectThresholds ==
    {[low |-> Ratio(50, 1), high |-> Ratio(150, 1)],
     [low |-> Ratio(5, 100), high |-> Ratio(15, 100)],
     [low |-> Ratio(50, 100), high |-> Ratio(15, 100)],
     [low |-> Ratio(0, 100), high |-> Ratio(15, 100)]}

Init ==
    /\ pc = "gray"
    /\ cv2_bilateral \in BilateralBehaviours /\ calls = {}
    /\ suspended = << >>
    /\ \E im \in Images(RefRows, RefCols), t \in DetectThresholds,
          ub \in BOOLEAN, sp \in BOOLEAN :
          args = [call |-> "detect", img |-> im, use_bilateral |-> ub,
                  low_threshold |-> t.low, high_threshold |-> t.high,
                  apply_subpixel |-> sp]
    /\ gray = None /\ filtered = None
    /\ magnitude = None /\ direction = None /\ suppressed = None
    /\ strong = None /\ weak = None
    /\ pixel_edges = None /\ refine_img = None /\ subpixel_edges = None

\* gray = img.copy() (the image is 2-D)
GrayStep ==
    /\ pc = "gray"
    /\ gray' = args.img
    /\ pc' = "denoise"
    /\ UNCHANGED << cv2_bilateral, calls, suspended, args,
                    filtered, magnitude, direction, suppressed,
                    strong, weak, pixel_edges, refine_img, subpixel_edges >>

\* Step 1: filtered = self.bilateral_filter(gray) or cv2.GaussianBlur(gray)
DenoiseStep ==
    /\ pc = "denoise"
    /\ IF args.use_bilateral
       THEN filtered' = BilateralFilter(gray, cv2_bilateral)
       ELSE filtered' = GaussianBlur(gray)
    /\ pc' = "gradient"
    /\ UNCHANGED << cv2_bilateral, calls, suspended, args,
                    gray, magnitude, direction, suppressed,
                    strong, weak, pixel_edges, refine_img, subpixel_edges >>

\* Step 2: magnitude, direction = self.improved_canny_gradient(filtered)
GradientStep ==
    /\ pc = "gradient"
    /\ magnitude' = MagnitudeOf(filtered)
    /\ direction' = DirectionOf(filtered)
    /\ pc' = "nms"
    /\ UNCHANGED << cv2_bilateral, calls, suspended, args,
                    gray, filtered, suppressed,
                    strong, weak, pixel_edges, refine_img, subpixel_edges >>

\* Step 3: suppressed = self.non_maximum_suppression(magnitude, direction)
NmsStep ==
    /\ pc = "nms"
    /\ suppressed' = SuppressedOf(magnitude, direction)
    /\ pc' = IF args.call = "detect" THEN "threshold" ELSE "done"
    /\ UNCHANGED << cv2_bilateral, calls, suspended, args,
                    gray, filtered, magnitude, direction,
                    strong, weak, pixel_edges, refine_img, subpixel_edges >>

\* Step 6, apply_subpixel: self.subpixel_refinement(pixel_edges, gray)
SubpixelCall ==
    /\ pc = "subpixel"
    /\ args.apply_subpixel
    /\ refine_img' = gray
    /\ subpixel_edges' = List(<< >>)
    /\ pc' = "refine"
    /\ UNCHANGED << cv2_bilateral, calls, suspended, args,
                    gray, filtered, magnitude, direction, suppressed,
                    strong, weak, pixel_edges >>

\* (faulty variant) the refinement runs whatever apply_subpixel is
SubpixelAlways ==
    /\ pc = "subpixel"
    /\ ~args.apply_subpixel
    /\ refine_img' = gray
    /\ subpixel_edges' = List(<< >>)
    /\ pc' = "refine"
    /\ UNCHANGED << cv2_bilateral, calls, suspended, args,
                    gray, filtered, magnitude, direction, suppressed,
                    strong, weak, pixel_edges >>

\* Step 6, not apply_subpixel: subpixel_edges stays None
SubpixelSkip ==
    /\ pc = "subpixel"
    /\ ~args.apply_subpixel
    /\ pc' = "done"
    /\ UNCHANGED << cv2_bilateral, calls, suspended, args,
                    gray, filtered, magnitude, direction, suppressed,
                    strong, weak, pixel_edges, refine_img, subpixel_edges >>

Next ==
    \/ GrayStep \/ DenoiseStep \/ GradientStep \/ NmsStep
    \/ ThresholdStep \/ HysteresisStep
    \/ SubpixelCall \/ SubpixelSkip \/ RefineStep \/ RefineReturn

Spec == Init /\ [][Next]_vars

\* the gradient and the thinning called on their own
SpecNms == InitNms /\ [][GradientStep \/ NmsStep]_vars

-----------------------------------------------------------------------------
(* detect on the image of the end-to-end scenario.                         *)

\* the side of the square image; its upper half is Dark, its lower Bright
BandSize == 64

BandImage == HStepImage(BandSize, BandSize, BandSize \div 2, Dark, Bright)

InitBand ==
    /\ pc = "gray"
    /\ cv2_bilateral \in BilateralBehaviours /\ calls = {}
    /\ suspended = << >>
    /\ \E ub \in BOOLEAN, sp \in BOOLEAN :
          args = [call |-> "detect", img |-> BandImage, use_bilateral |-> ub,
                  low_threshold |-> Ratio(5, 100),
                  high_threshold |-> Ratio(15, 100),
                  apply_subpixel |-> sp]
    /\ gray = None /\ filtered = None
    /\ magnitude = None /\ direction = None /\ suppressed = None
    /\ strong = None /\ weak = None
    /\ pixel_edges = None /\ refine_img = None /\ subpixel_edges = None

SpecBand == InitBand /\ [][Next]_vars

-----------------------------------------------------------------------------
(* detect called several times on one detector.                            *)

\* the image of the calls: a vertical step beside the middle column
CallImage == VStepImage(RefRows, RefCols, (N \div 2) + 1, Dark, Bright)

\* the arguments of a call: the default thresholds or a low ratio of 0
CallArgs ==
    {[call |-> "detect", img |-> CallImage, use_bilateral |-> ub,
      low_threshold |-> t.low, high_threshold |-> t.high,
      apply_subpixel |-> sp] :
        ub \in BOOLEAN, sp \in BOOLEAN,
        t \in {[low |-> Ratio(50, 1), high |-> Ratio(150, 1)],
               [low |-> Ratio(0, 100), high |-> Ratio(15, 100)]}}

InitCalls ==
    /\ pc = "gray"
    /\ cv2_bilateral \in BilateralBehaviours /\ calls = {}
    /\ suspended = << >>
    /\ args \in CallArgs
    /\ gray = None /\ filtered = None
    /\ magnitude = None /\ direction = None /\ suppressed = None
    /\ strong = None /\ weak = None
    /\ pixel_edges = None /\ refine_img = None /\ subpixel_edges = None

\* return pixel_edges, subpixel_edges: what the call under way returns
Returns ==
    [args |-> args, pixel_edges |-> pixel_edges,
     subpixel_edges |-> subpixel_edges]

\* detect has returned and is called again on the same detector, whose
\* fields (n, zernike_masks) no call has assigned
CallAgain ==
    /\ pc = "done"
    /\ Cardinality(calls) < MaxCalls - 1
    /\ calls' = calls \cup {Returns}
    /\ args' \in CallArgs
    /\ pc' = "gray"
    /\ gray' = None /\ filtered' = None
    /\ magnitude' = None /\ direction' = None /\ suppressed' = None
    /\ strong' = None /\ weak' = None
    /\ pixel_edges' = None /\ refine_img' = None /\ subpixel_edges' = None
    /\ UNCHANGED << cv2_bilateral, suspended >>

NextCalls == Next \/ CallAgain

SpecCalls == InitCalls /\ [][NextCalls]_vars

-----------------------------------------------------------------------------
(* detect called with thresholds on the 0-255 scale.                       *)

\* the images: a step, and a faint step beside a strong one, which gives a
\* thinned grid with values between 0 and its maximum
AbsoluteImages ==
    {CallImage,
     BandsImage(RefRows, 2 * N, (N \div 2) + 1, (2 * N) - (N \div 2) - 1,
                Dark, Faint, Bright)}

\* pairs (low_threshold, high_threshold) on the 0-255 scale with
\* high_threshold >= 1: detect's defaults, (0.5, 1) and (1, 2)
AbsolutePairs ==
    {[low |-> Ratio(50, 1), high |-> Ratio(150, 1)],
     [low |-> Ratio(1, 2), high |-> Ratio(1, 1)],
     [low |-> Ratio(1, 1), high |-> Ratio(2, 1)]}

InitAbsolute ==
    /\ pc = "gray"
    /\ cv2_bilateral \in BilateralBehaviours /\ calls = {}
    /\ suspended = << >>
    /\ \E im \in AbsoluteImages, t \in AbsolutePairs,
          ub \in BOOLEAN, sp \in BOOLEAN :
          args = [call |-> "detect", img |-> im, use_bilateral |-> ub,
                  low_threshold |-> t.low, high_threshold |-> t.high,
                  apply_subpixel |-> sp]
    /\ gray = None /\ filtered = None
    /\ magnitude = None /\ direction = None /\ suppressed = None
    /\ strong = None /\ weak = None
    /\ pixel_edges = None /\ refine_img = None /\ subpixel_edges = None

SpecAbsolute == InitAbsolute /\ [][Next]_vars

-----------------------------------------------------------------------------
(* detect called by two threads at once on one detector.                   *)

\* Each call of detect has a frame of its own: its arguments, its local
\* variables and the step it has reached.  The variables pc, args, ...,
\* subpixel_edges are the frame of the thread that runs; the frame of the
\* thread that waits is kept in suspended.  The detector's fields (n and
\* zernike_masks) are the definitions N and Z00Mask ... Z20Mask, which no
\* step of detect assigns.
Frame ==
    [pc |-> pc, args |-> args, gray |-> gray, filtered |-> filtered,
     magnitude |-> magnitude, direction |-> direction,
     suppressed |-> suppressed, strong |-> strong, weak |-> weak,
     pixel_edges |-> pixel_edges, refine_img |-> refine_img,
     subpixel_edges |-> subpixel_edges]

\* the frame of a call of detect that has not taken a step
StartFrame(a) ==
    [pc |-> "gray", args |-> a, gray |-> None, filtered |-> None,
     magnitude |-> None, direction |-> None,
     suppressed |-> None, strong |-> None, weak |-> None,
     pixel_edges |-> None, refine_img |-> None,
     subpixel_edges |-> None]

\* the images of the threads: a vertical and a horizontal step
ThreadImages ==
    {CallImage, HStepImage(RefRows, RefCols, (N \div 2) + 1, Bright, Dark)}

\* the arguments of a thread's call, with the defaults of use_bilateral
\* and of the thresholds
ThreadArgs ==
    {[call |-> "detect", img |-> im, use_bilateral |-> TRUE,
      low_threshold |-> Ratio(50, 1), high_threshold |-> Ratio(150, 1),
      apply_subpixel |-> sp] :
        im \in ThreadImages, sp \in BOOLEAN}

InitThreads ==
    /\ pc = "gray"
    /\ cv2_bilateral \in BilateralBehaviours /\ calls = {}
    /\ args \in ThreadArgs
    /\ \E a \in ThreadArgs : suspended = << StartFrame(a) >>
    /\ gray = None /\ filtered = None
    /\ magnitude = None /\ direction = None /\ suppressed = None
    /\ strong = None /\ weak = None
    /\ pixel_edges = None /\ refine_img = None /\ subpixel_edges = None

\* (faulty variant) the thinned grid is a buffer of the detector, which
\* the calls of all threads write and read
SwitchSharingBuffer ==
    \E k \in DOMAIN suspended :
        /\ suspended' = [suspended EXCEPT ![k] = Frame]
        /\ pc' = suspended[k].pc
        /\ args' = suspended[k].args
        /\ gray' = suspended[k].gray
        /\ filtered' = suspended[k].filtered
        /\ magnitude' = suspended[k].magnitude
        /\ direction' = suspended[k].direction
        /\ strong' = suspended[k].strong
        /\ weak' = suspended[k].weak
        /\ pixel_edges' = suspended[k].pixel_edges
        /\ refine_img' = suspended[k].refine_img
        /\ subpixel_edges' = suspended[k].subpixel_edges
        /\ UNCHANGED << cv2_bilateral, calls, suppressed >>

\* the scheduler lets another thread run: the frame of the running call
\* is put aside and the frame of a waiting call is taken up where it was
Switch ==
    \E k \in DOMAIN suspended :
        /\ suspended' = [suspended EXCEPT ![k] = Frame]
        /\ pc' = suspended[k].pc
        /\ args' = suspended[k].args
        /\ gray' = suspended[k].gray
        /\ filtered' = suspended[k].filtered
        /\ magnitude' = suspended[k].magnitude
        /\ direction' = suspended[k].direction
        /\ suppressed' = suspended[k].suppressed
        /\ strong' = suspended[k].strong
        /\ weak' = suspended[k].weak
        /\ pixel_edges' = suspended[k].pixel_edges
        /\ refine_img' = suspended[k].refine_img
        /\ subpixel_edges' = suspended[k].subpixel_edges
        /\ UNCHANGED << cv2_bilateral, calls >>

NextThreads == Next \/ Switch

SpecThreads == InitThreads /\ [][NextThreads]_vars

\* what detect returns for arguments a when it runs alone: the steps of
\* lines 359-399 one after the other
DetectAlone(a, behaviour) ==
    LET g == a.img
        f == IF a.use_bilateral THEN BilateralFilter(g, behaviour)
             ELSE GaussianBlur(g)
        s == SuppressedOf(MagnitudeOf(f), DirectionOf(f))
        r == RatiosOf(a)
        e == HysteresisOf(StrongOf(s, r.low, r.high),
                          WeakOf(s, r.low, r.high))
    IN  [pixel_edges |-> e,
         subpixel_edges |->
            IF a.apply_subpixel
            THEN List([k \in 1 .. Cardinality(Marked(e)) |->
                        LET p == EdgePoint(e, k)
                        IN  Refine(g, p[1], p[2])])
            ELSE None]

-----------------------------------------------------------------------------
(* The claims about double_threshold and hysteresis.                       *)

\* the neighbours of p that lie inside grid g
NeighboursIn(g, p) == Neighbours8(p) \cap CellsOf(g)
At(g, p) == g[p[1]][p[2]]
RatioLeq(a, b) == a.num * b.den <= b.num * a.den
RatioIsZero(t) == t.num = 0

\* a weak pixel that is not strong and has no strong pixel among its 8
\* neighbours
IsolatedWeak(p) ==
    /\ At(weak, p) = WEAK
    /\ At(strong, p) # STRONG
    /\ \A q \in NeighboursIn(strong, p) : At(strong, q) # STRONG

\* a weak pixel with a strong pixel among its 8 neighbours
LinkedWeak(p) ==
    /\ At(weak, p) = WEAK
    /\ \E q \in NeighboursIn(strong, p) : At(strong, q) = STRONG

\* C2 (as claimed): when the maximum of the thinned grid is 0, both
\* thresholds are 0 and the edge map that double_threshold and hysteresis
\* give has no marked pixel.
C2_ZeroMaxGivesEmptyMap ==
    (pc = "done" /\ GridMax(suppressed) = 0) =>
        /\ RatioIsZero(HighThreshold(suppressed, args.high_ratio))
        /\ RatioIsZero(LowThreshold(suppressed, args.low_ratio,
                                    args.high_ratio))
        /\ Marked(pixel_edges) = {}

\* C3: after hysteresis, a weak pixel that is not strong and has no strong
\* pixel among its 8 neighbours is not marked in the edge map, whatever
\* promoted pixels lie next to it.
C3_IsolatedWeakNeverMarked ==
    pc = "done" =>
        \A p \in CellsOf(weak) : IsolatedWeak(p) => At(pixel_edges, p) = 0

\* C3's case: an isolated weak pixel left unmarked beside a weak pixel that
\* was promoted.
C3_Witness ==
    /\ pc = "done"
    /\ \E p \in CellsOf(weak) :
          /\ IsolatedWeak(p)
          /\ Interior(weak, p[1], p[2])
          /\ At(pixel_edges, p) = 0
          /\ \E q \in NeighboursIn(weak, p) :
                /\ At(weak, q) = WEAK
                /\ At(strong, q) = 0
                /\ At(pixel_edges, q) = STRONG

\* C4 (as claimed): after hysteresis the edge map marks every strong pixel
\* and every weak pixel with a strong pixel among its 8 neighbours, at
\* every position of the grid.
C4_LinkedWeakMarkedEverywhere ==
    pc = "done" =>
        \A p \in CellsOf(weak) :
            /\ At(strong, p) = STRONG => At(pixel_edges, p) > 0
            /\ LinkedWeak(p) => At(pixel_edges, p) > 0

\* C4 (amended): after hysteresis the edge map marks every strong pixel,
\* and every weak pixel with a strong pixel among its 8 neighbours that
\* does not lie on the outer one-pixel ring of the grid.
C4_LinkedInteriorWeakMarked ==
    pc = "done" =>
        \A p \in CellsOf(weak) :
            /\ At(strong, p) = STRONG => At(pixel_edges, p) = STRONG
            /\ (LinkedWeak(p) /\ Interior(weak, p[1], p[2])) =>
                   At(pixel_edges, p) = STRONG

\* C4's case: an interior weak pixel, not strong itself, promoted through
\* a strong pixel that touches it only at a corner.
C4_Witness ==
    /\ pc = "done"
    /\ \E p \in CellsOf(weak) :
          /\ Interior(weak, p[1], p[2])
          /\ At(weak, p) = WEAK
          /\ At(strong, p) = 0
          /\ At(pixel_edges, p) = STRONG
          /\ \A q \in NeighboursIn(strong, p) :
                At(strong, q) = STRONG => (q[1] # p[1] /\ q[2] # p[2])

\* the number of nonzero pixels of a grid
Count(g) == Cardinality(Marked(g))

\* the edge map double_threshold and hysteresis give for a thinned grid
EdgesOf(img, low_ratio, high_ratio) ==
    HysteresisOf(StrongOf(img, low_ratio, high_ratio),
                 WeakOf(img, low_ratio, high_ratio))

\* C5: for the thinned grid and low ratio of the call, every high ratio h2
\* at or above the call's gives no more strong pixels and no more marked
\* pixels after hysteresis than the call did.
C5_MonotoneInHighRatio ==
    pc = "done" =>
        \A h2 \in HighRatios :
            RatioLeq(args.high_ratio, h2) =>
                /\ Count(StrongOf(suppressed, args.low_ratio, h2))
                       <= Count(strong)
                /\ Count(EdgesOf(suppressed, args.low_ratio, h2))
                       <= Count(pixel_edges)

\* C5's case: a higher ratio under which a weak pixel that the call
\* promoted is no longer marked.
C5_Witness ==
    /\ pc = "done"
    /\ \E h2 \in HighRatios :
          /\ RatioLeq(args.high_ratio, h2)
          /\ Count(EdgesOf(suppressed, args.low_ratio, h2))
                 < Count(pixel_edges)
          /\ \E p \in CellsOf(weak) :
                At(strong, p) = 0 /\ At(pixel_edges, p) = STRONG

\* C17 (as claimed): double_threshold, with high = max(grid) * high_ratio
\* and low = high * low_ratio, puts each pixel of the thinned grid in
\* exactly one class: strong (value >= high), weak (low <= value < high)
\* or none (value < low); no pixel is both strong and weak.
C17_ThreeDisjointClasses ==
    (args.call = "double_threshold" /\ pc # "threshold") =>
        LET r == RatiosOf(args)
            high == HighThreshold(suppressed, r.high)
            low == LowThreshold(suppressed, r.low, r.high)
        IN  \A p \in CellsOf(suppressed) :
                LET v == At(suppressed, p)
                IN  /\ At(strong, p) = STRONG <=> GeqRatio(v, high)
                    /\ At(weak, p) = WEAK <=>
                          (GeqRatio(v, low) /\ ~GeqRatio(v, high))
                    /\ ~(At(strong, p) = STRONG /\ At(weak, p) = WEAK)

\* C17 fails apart from the zero maximum of C2: no thinned grid has a
\* nonzero pixel below the maximum that is both strong and weak (violated)
C17_NonzeroInBoth ==
    ~(/\ args.call = "double_threshold" /\ pc # "threshold"
      /\ \E p \in CellsOf(suppressed) :
            /\ At(suppressed, p) > 0
            /\ At(suppressed, p) < GridMax(suppressed)
            /\ At(strong, p) = STRONG
            /\ At(weak, p) = WEAK)

-----------------------------------------------------------------------------
(* The claims about detect.                                                *)

\* whether detect has returned
Returned == args.call = "detect" /\ pc = "done"

\* C1 (as claimed): detect on an image whose pixels are all zero returns
\* an edge map with no marked pixel and, with apply_subpixel, an empty
\* sequence of subpixel points.
C1_BlankImageGivesNoEdges ==
    (Returned /\ args.img = Zeros(Rows(args.img), Cols(args.img))) =>
        /\ Marked(pixel_edges) = {}
        /\ args.apply_subpixel => subpixel_edges = List(<< >>)

\* C10 (as claimed): each coordinate of each subpixel point detect
\* returns is a finite real number, neither NaN nor infinite.
C10_PointsFinite ==
    Returned =>
        \A k \in DOMAIN subpixel_edges.points :
            /\ IsFinite(subpixel_edges.points[k].x)
            /\ IsFinite(subpixel_edges.points[k].y)

\* a < b for two fractions
RatioLess(a, b) == a.num * b.den < b.num * a.den

\* the ratios detect computes from the thresholds satisfy 0 < low < high < 1
ThresholdsInRange(a) ==
    LET r == RatiosOf(a)
    IN  /\ r.low.num > 0
        /\ RatioLess(r.low, r.high)
        /\ RatioLess(r.high, Ratio(1, 1))

\* C12 (as claimed): detect called with threshold ratios that break
\* 0 < low < high < 1 signals an error at once: it computes and returns no
\* edge map and no point sequence.
C12_InvalidThresholdsRejected ==
    (args.call = "detect" /\ ~ThresholdsInRange(args)) =>
        /\ pc # "done"
        /\ pixel_edges = None
        /\ subpixel_edges = None

\* what the calls of detect on the detector have returned so far
AllReturns == calls \cup (IF Returned THEN {Returns} ELSE {})

\* C13: detect is deterministic: two calls on one detector with the same
\* image and the same parameters return the same edge map and the same
\* sequence of subpixel points, whatever was called in between.
C13_Deterministic ==
    \A r1, r2 \in AllReturns :
        r1.args = r2.args =>
            /\ r1.pixel_edges = r2.pixel_edges
            /\ r1.subpixel_edges = r2.subpixel_edges

\* C13's case: a call returns what an earlier call with its arguments
\* returned, after a call with other thresholds that returned another map.
C13_Witness ==
    /\ Returned
    /\ args.apply_subpixel
    /\ \E r1, r2 \in calls :
          /\ r1.args = args
          /\ r1.pixel_edges = pixel_edges
          /\ r1.subpixel_edges = subpixel_edges
          /\ Len(subpixel_edges.points) > 0
          /\ r2.args.low_threshold # args.low_threshold
          /\ r2.pixel_edges # pixel_edges

\* two calls that differ at most in apply_subpixel
SameButSubpixel(a, b) ==
    [a EXCEPT !.apply_subpixel = TRUE] = [b EXCEPT !.apply_subpixel = TRUE]

\* C14: with apply_subpixel false detect never runs the refinement and
\* returns None for the points, and its edge map is the one it returns
\* with apply_subpixel true for the same image and thresholds.
C14_SubpixelOptional ==
    /\ ~args.apply_subpixel =>
          /\ pc # "refine"
          /\ refine_img = None
          /\ subpixel_edges = None
    /\ \A r \in AllReturns :
          ~r.args.apply_subpixel => r.subpixel_edges = None
    /\ \A r1, r2 \in AllReturns :
          SameButSubpixel(r1.args, r2.args) =>
              r1.pixel_edges = r2.pixel_edges

\* C14's case: a call without refinement returns None and the edge map
\* that an earlier call with refinement returned beside its points.
C14_Witness ==
    /\ Returned
    /\ ~args.apply_subpixel
    /\ subpixel_edges = None
    /\ Marked(pixel_edges) # {}
    /\ \E r \in calls :
          /\ r.args = [args EXCEPT !.apply_subpixel = TRUE]
          /\ r.pixel_edges = pixel_edges
          /\ ~r.subpixel_edges.none
          /\ Len(r.subpixel_edges.points) = Cardinality(Marked(pixel_edges))

\* C15 (as claimed): the image detect hands to subpixel_refinement is the
\* denoised image, from which the gradient and the edge map were computed,
\* and not the input before denoising.
C15_RefinesDenoisedImage ==
    (args.call = "detect" /\ args.apply_subpixel
        /\ pc \in {"refine", "done"}) =>
        refine_img = filtered

\* C16: the edge map detect returns has the shape of the image and is
\* binary: each element is 0 or the edge value 255, never a third value.
C16_EdgeMapBinary ==
    Returned =>
        /\ Rows(pixel_edges) = Rows(args.img)
        /\ Cols(pixel_edges) = Cols(args.img)
        /\ \A p \in CellsOf(pixel_edges) : At(pixel_edges, p) \in {0, STRONG}

\* C16's case: a returned map with edge pixels and non-edge pixels, from a
\* call in which double_threshold found weak pixels.
C16_Witness ==
    /\ Returned
    /\ \E p, q \in CellsOf(pixel_edges) :
          /\ At(pixel_edges, p) = 0
          /\ At(weak, p) = WEAK
          /\ At(pixel_edges, q) = STRONG

\* the columns c at which the image of the call is a vertical step between
\* two different levels (columns < c at one, columns >= c at the other)
StepColumns ==
    {c \in 1 .. Cols(args.img) - 1 :
        \E a, b \in Intensities :
            /\ a # b
            /\ args.img = VStepImage(Rows(args.img), Cols(args.img), c, a, b)}

\* the rows the loops visit: all but the first and the last
InteriorRows(g) == 1 .. Rows(g) - 2

InnerRows(g) == 3 .. Rows(g) - 4

\* the distance, in units of 1 / UNIT, of a finite x from the transition
\* of a vertical step at column c, which lies at c - 0.5
StepError(x, c) == Abs(x.v - (c * UNIT - UNIT \div 2))

InsideStepColumns == StepColumns \cap (2 .. Cols(args.img) - 2)

BandRows == {(BandSize \div 2) - 1, BandSize \div 2}

\* C20: for the 64 x 64 image with 50 on rows 0-31 and 200 on rows 32-63,
\* a low ratio of 0.05 and a high ratio of 0.15, the edge map detect
\* returns marks in every interior column a pixel of row 31 or row 32, and
\* marks no pixel of any other row.
C20_BandAtTransition ==
    (Returned /\ args.img = BandImage) =>
        /\ \A p \in Marked(pixel_edges) : p[1] \in BandRows
        /\ \A j \in 1 .. Cols(pixel_edges) - 2 :
              \E i \in BandRows : << i, j >> \in Marked(pixel_edges)

\* C20's case: the call on the smoothed image has returned a map with
\* marks in the first and the last interior column, and none in the
\* first and the last column.
C20_Witness ==
    /\ Returned /\ args.img = BandImage
    /\ filtered # gray
    /\ \E i \in BandRows : << i, 1 >> \in Marked(pixel_edges)
    /\ \E i \in BandRows : << i, BandSize - 2 >> \in Marked(pixel_edges)
    /\ \A i \in BandRows :
          /\ << i, 0 >> \notin Marked(pixel_edges)
          /\ << i, BandSize - 1 >> \notin Marked(pixel_edges)

\* the frames of all calls under way or returned
Frames == {Frame} \cup {suspended[k] : k \in DOMAIN suspended}

\* C21: the calls of detect that threads make at once on one detector,
\* their steps interleaved in any order, each return what the call returns
\* when it runs alone: no step of a call writes what another call reads.
C21_ThreadsDoNotInterfere ==
    \A f \in Frames :
        (f.args.call = "detect" /\ f.pc = "done") =>
            LET alone == DetectAlone(f.args, cv2_bilateral)
            IN  /\ f.pixel_edges = alone.pixel_edges
                /\ f.subpixel_edges = alone.subpixel_edges

\* C21's case: a call has returned its edges and points while the call of
\* the other thread, on another image, is between its steps 3 and 5.
C21_Witness ==
    /\ Returned
    /\ Len(suspended) = 1
    /\ args.apply_subpixel /\ Len(subpixel_edges.points) > 0
    /\ suspended[1].pc \in {"threshold", "hysteresis"}
    /\ suspended[1].args.img # args.img
    /\ suspended[1].suppressed # suppressed

\* a step leaves what it was given as it was: the caller's image, the copy
\* and the denoised image, the grids given to non_maximum_suppression, to
\* double_threshold and to hysteresis, the map and image given to
\* subpixel_refinement
InputsKept ==
    /\ args' = args
    /\ pc # "gray" => gray' = gray
    /\ pc \in {"gradient", "nms"} => filtered' = filtered
    /\ pc = "nms" => (magnitude' = magnitude /\ direction' = direction)
    /\ pc = "threshold" => suppressed' = suppressed
    /\ pc = "hysteresis" => (strong' = strong /\ weak' = weak)
    /\ pc = "refine" =>
          (pixel_edges' = pixel_edges /\ refine_img' = refine_img)

\* C22: detect and each of its steps leave their inputs unchanged: the
\* caller's image, the magnitude and direction grids given to
\* non_maximum_suppression and the strong and weak grids given to
\* hysteresis are after the step what they were before it.  (The masks
\* and the patch size are N and the mask definitions, which no step
\* assigns.)
C22_InputsUnchanged == [][InputsKept]_vars

\* C22's case: detect has returned a map in which hysteresis marked pixels
\* that its strong grid does not mark, from an image that the denoising
\* did not return as it was, and each grid is still what its step made.
C22_Witness ==
    /\ Returned
    /\ gray = args.img
    /\ filtered # gray
    /\ magnitude = MagnitudeOf(filtered)
    /\ direction = DirectionOf(filtered)
    /\ strong = StrongOf(suppressed, RatiosOf(args).low, RatiosOf(args).high)
    /\ weak = WeakOf(suppressed, RatiosOf(args).low, RatiosOf(args).high)
    /\ pixel_edges # strong

\* the call with the thresholds of call a divided by 255
AsRatios(a) ==
    [a EXCEPT
        !.low_threshold = Ratio(a.low_threshold.num,
                                a.low_threshold.den * 255),
        !.high_threshold = Ratio(a.high_threshold.num,
                                 a.high_threshold.den * 255)]

\* C27 (as claimed): for every pair (low_threshold, high_threshold) on the
\* 0-255 scale with high_threshold >= 1, detect returns what it returns
\* when called with the ratios low_threshold / 255 and high_threshold /
\* 255.
C27_AbsoluteAsRatios ==
    (Returned /\ args.high_threshold.num >= args.high_threshold.den) =>
        LET same == DetectAlone(AsRatios(args), cv2_bilateral)
        IN  /\ pixel_edges = same.pixel_edges
            /\ subpixel_edges = same.subpixel_edges

-----------------------------------------------------------------------------
(* The claims about the gradient and non_maximum_suppression.              *)

\* non_maximum_suppression has returned
Thinned == args.call = "improved_canny_gradient" /\ pc = "done"

\* the two neighbours of << i, j >> along the gradient direction of bucket
\* b in image coordinates (x to the right, y downwards)
AlongGradient(b, i, j) ==
    CASE b = 0 -> {<< i, j + 1 >>, << i, j - 1 >>}
      [] b = 45 -> {<< i + 1, j + 1 >>, << i - 1, j - 1 >>}
      [] b = 90 -> {<< i + 1, j >>, << i - 1, j >>}
      [] b = 135 -> {<< i + 1, j - 1 >>, << i - 1, j + 1 >>}

\* int(min(magnitude, 255)) of a magnitude kept as 4 * magnitude^2
Clamped(m) == Min(Isqrt(m) \div 2, 255)

\* C23 (as claimed): non_maximum_suppression keeps the magnitude of an
\* interior pixel if and only if it is >= both neighbours along its
\* quantized gradient direction in image coordinates: left and right for
\* the bucket of 0 degrees, (i+1, j+1) and (i-1, j-1) for 45, up and down
\* for 90, (i+1, j-1) and (i-1, j+1) for 135; otherwise it writes 0.
C23_KeptAlongGradient ==
    Thinned =>
        \A p \in CellsOf(magnitude) :
            Interior(magnitude, p[1], p[2]) =>
                LET b == AngleBucket(At(direction, p))
                    kept == \A q \in AlongGradient(b, p[1], p[2]) :
                                At(magnitude, p) >= At(magnitude, q)
                IN  At(suppressed, p) =
                        IF kept THEN Clamped(At(magnitude, p)) ELSE 0

\* the nonzero pixels of row i (of column j) of the thinned grid
NonzeroInRow(i) == {j \in 0 .. Cols(suppressed) - 1 : suppressed[i][j] > 0}
NonzeroInColumn(j) == {i \in 0 .. Rows(suppressed) - 1 : suppressed[i][j] > 0}

\* the image is a vertical (horizontal) step with interior pixels on both
\* sides of the transition
InsideVStep ==
    \E c \in 2 .. Cols(args.img) - 2 : \E ab \in Contrasts :
        args.img = VStepImage(Rows(args.img), Cols(args.img), c, ab[1], ab[2])
InsideHStep ==
    \E r \in 2 .. Rows(args.img) - 2 : \E ab \in Contrasts :
        args.img = HStepImage(Rows(args.img), Cols(args.img), r, ab[1], ab[2])

\* C24 (as claimed): the thinned map of a noise-free straight step edge is
\* one pixel wide: each interior row that crosses a vertical edge, and
\* each interior column that crosses a horizontal edge, has exactly one
\* nonzero thinned pixel.
C24_OnePixelWide ==
    Thinned =>
        /\ InsideVStep =>
              \A i \in InteriorRows(suppressed) :
                  Cardinality(NonzeroInRow(i)) = 1
        /\ InsideHStep =>
              \A j \in 1 .. Cols(suppressed) - 2 :
                  Cardinality(NonzeroInColumn(j)) = 1

\* C25: in the grid non_maximum_suppression returns, which has the shape
\* of the magnitude, every pixel of the first and last row and of the
\* first and last column is 0, also when the grid has fewer than 3 rows
\* or columns.
C25_RingIsZero ==
    Thinned =>
        /\ Rows(suppressed) = Rows(magnitude)
        /\ Cols(suppressed) = Cols(magnitude)
        /\ \A p \in CellsOf(suppressed) :
              ~Interior(suppressed, p[1], p[2]) => At(suppressed, p) = 0

\* C25's case: a grid of fewer than 3 rows, with a nonzero magnitude that
\* is at least that of its left and right neighbours, thinned to zeros.
C25_Witness ==
    /\ Thinned
    /\ Rows(magnitude) < 3 /\ Cols(magnitude) >= 3
    /\ \E p \in CellsOf(magnitude) :
          /\ 1 <= p[2] /\ p[2] <= Cols(magnitude) - 2
          /\ At(magnitude, p) > 0
          /\ At(magnitude, p) >= magnitude[p[1]][p[2] - 1]
          /\ At(magnitude, p) >= magnitude[p[1]][p[2] + 1]
    /\ Marked(suppressed) = {}

\* v is min(floor(magnitude), 255) for a magnitude kept as m = 4 *
\* magnitude^2
IsClampedFloor(v, m) ==
    \/ v = 255 /\ m >= 4 * 255 * 255
    \/ v < 255 /\ 4 * v * v <= m /\ m < 4 * (v + 1) * (v + 1)

\* C26: every value non_maximum_suppression writes lies in 0..255, and the
\* value of a kept pixel is min(floor(magnitude), 255): a magnitude above
\* 255 gives 255 and not its remainder modulo 256.
C26_ClampedNotWrapped ==
    Thinned =>
        \A p \in CellsOf(suppressed) :
            /\ At(suppressed, p) \in 0 .. 255
            /\ At(suppressed, p) # 0 =>
                   IsClampedFloor(At(suppressed, p), At(magnitude, p))

\* C26's case: a kept pixel whose magnitude, above 255 and not a multiple
\* of 256 away from it, is written as 255, beside a kept pixel below 255.
C26_Witness ==
    /\ Thinned
    /\ \E p, q \in CellsOf(suppressed) :
          /\ At(suppressed, p) = 255
          /\ At(magnitude, p) > 4 * 255 * 255
          /\ (Isqrt(At(magnitude, p)) \div 2) % 256 # 255
          /\ At(suppressed, q) \in 1 .. 254

\* the grid with rows and columns exchanged
Transpose(g) ==
    [j \in 0 .. Cols(g) - 1 |-> [i \in 0 .. Rows(g) - 1 |-> g[i][j]]]

\* C28 (as claimed): the gradient magnitude of the transposed image is
\* the transpose of the gradient magnitude of the image, so that a
\* horizontal and a vertical step of the same contrast get the same
\* magnitude.
C28_TransposeSymmetric ==
    Thinned => MagnitudeOf(Transpose(args.img)) = Transpose(magnitude)

-----------------------------------------------------------------------------
(* The claims about subpixel_refinement.                                   *)

\* the points appended so far
Points == subpixel_edges.points
PointIndices == 1 .. Len(Points)

\* whether the patch around the pixel a point came from has Z11 = 0
ZeroZ11(pt) ==
    LET m == ZernikeMoments(refine_img, pt.src[1], pt.src[2])
    IN  m.Z11R = 0 /\ m.Z11I = 0

\* the point is the integer pixel (x, y) = (column, row) it came from
IsPixelItself(pt) ==
    pt.x = Float(pt.src[2]) /\ pt.y = Float(pt.src[1])

\* C6: with patch size 7, the point of a marked pixel at row y, column x
\* with y < 3, x < 3, y > rows - 4 or x > cols - 4 is exactly (x, y) and
\* comes from the border branch; the point of every other marked pixel
\* comes from the moment computation.
C6_BorderFallback ==
    \A k \in PointIndices :
        LET pt == Points[k]
            y == pt.src[1]
            x == pt.src[2]
            band == \/ y < 3 \/ y > Rows(refine_img) - 4
                    \/ x < 3 \/ x > Cols(refine_img) - 4
        IN  /\ band => (IsPixelItself(pt) /\ pt.via = "border")
            /\ ~band => pt.via = "moments"

\* C6's case: a pixel in the last row of the band emitted unchanged, and a
\* pixel just outside the band refined to another place.
C6_Witness ==
    /\ pc = "done"
    /\ \E k \in PointIndices :
          /\ Points[k].src[1] = Rows(refine_img) - 3
          /\ Points[k].src[2] = 3
          /\ Points[k].via = "border"
          /\ IsPixelItself(Points[k])
    /\ \E k \in PointIndices :
          /\ Points[k].src[1] = Rows(refine_img) - 4
          /\ Points[k].via = "moments"
          /\ IsFinite(Points[k].x)
          /\ ~IsPixelItself(Points[k])

\* C7: subpixel_refinement returns one point per marked pixel, the points
\* in the row-major order of their pixels, each expressed as (x, y) =
\* (column, row): within 2 pixels of its pixel when finite, and the pixel
\* itself on the border.
C7_OnePointPerPixelRowMajor ==
    pc = "done" =>
        /\ Len(Points) = Cardinality(Marked(pixel_edges))
        /\ {Points[k].src : k \in PointIndices} = Marked(pixel_edges)
        /\ \A k, j \in PointIndices :
              k < j => RowMajorBefore(Points[k].src, Points[j].src)
        /\ \A k \in PointIndices :
              LET pt == Points[k]
              IN  /\ pt.via = "border" => IsPixelItself(pt)
                  /\ (IsFinite(pt.x) /\ IsFinite(pt.y)) =>
                        /\ Abs(pt.x.v - pt.src[2] * UNIT) < 2 * UNIT
                        /\ Abs(pt.y.v - pt.src[1] * UNIT) < 2 * UNIT

\* C7's case: two marked pixels, the first in scan order in a column to
\* the right of the second, both emitted, the first unchanged.
C7_Witness ==
    /\ pc = "done"
    /\ Len(Points) = 2
    /\ Points[1].src[1] < Points[2].src[1]
    /\ Points[1].src[2] > Points[2].src[2] + 3
    /\ IsPixelItself(Points[1])
    /\ Points[2].via = "moments"

\* C8 (as claimed): a marked interior pixel whose patch has Z11 = 0 is
\* emitted as exactly the unrefined (x, y).
C8_ZeroZ11FallsBack ==
    \A k \in PointIndices :
        (Points[k].via # "border" /\ ZeroZ11(Points[k])) =>
            IsPixelItself(Points[k])

\* C9: no exception leaves subpixel_refinement, and when it returns every
\* marked pixel has its point, whatever the refinement of the other
\* pixels came to.
C9_NoExceptionEscapes ==
    /\ pc # "raised"
    /\ pc = "done" =>
          \A p \in Marked(pixel_edges) :
              \E k \in PointIndices : Points[k].src = p

\* C9's case: the refinement of one pixel failed numerically (its point
\* is NaN) and the pixels after it were still emitted.
C9_Witness ==
    /\ pc = "done"
    /\ \E k, j \in PointIndices :
          /\ k < j
          /\ Points[k].x.nan
          /\ IsFinite(Points[j].x)

\* the normalized distance l computed for the pixel a point came from
DistanceOf(pt) ==
    SubpixelEdgeParameters(ZernikeMoments(refine_img, pt.src[1], pt.src[2])).l

\* C11 (as claimed): the normalized distance l that subpixel_edge_parameters
\* returns, and that the offset of a refined point is computed from,
\* satisfies -0.99 <= l <= 0.99 whatever the moments are.
C11_DistanceWithinClip ==
    \A k \in PointIndices :
        Points[k].via = "moments" =>
            /\ IsFinite(DistanceOf(Points[k]))
            /\ -CLIP <= DistanceOf(Points[k]).v
            /\ DistanceOf(Points[k]).v <= CLIP

\* (n / 2) * (0.99 / 2) = 1.7325 px, in units of 1 / UNIT
MaxOffset == (N * CLIP) \div 4

\* how far, along x and along y, a point with finite coordinates lies from
\* the pixel it came from
MovedX(pt) == pt.x.v - pt.src[2] * UNIT
MovedY(pt) == pt.y.v - pt.src[1] * UNIT

\* C29 (as claimed): every point subpixel_refinement emits lies within
\* (7 / 2) * (0.99 / 2) = 1.7325 px of the integer pixel it came from, and
\* less than 2 px from it in x and in y.
C29_WithinMaxOffset ==
    \A k \in PointIndices :
        /\ IsFinite(Points[k].x) /\ IsFinite(Points[k].y)
        /\ MovedX(Points[k]) * MovedX(Points[k])
              + MovedY(Points[k]) * MovedY(Points[k]) <= MaxOffset * MaxOffset
        /\ Abs(MovedX(Points[k])) < 2 * UNIT
        /\ Abs(MovedY(Points[k])) < 2 * UNIT

\* the cells of the image outside the N x N neighbourhood of pixel p
OutsidePatch(img, p) ==
    {q \in CellsOf(img) :
        Abs(q[1] - p[1]) > N \div 2 \/ Abs(q[2] - p[2]) > N \div 2}

\* the image with level v at cell q
Repainted(img, q, v) ==
    [i \in DOMAIN img |-> [j \in DOMAIN img[i] |->
        IF << i, j >> = q THEN v ELSE img[i][j]]]

\* C30: for a fixed edge map, the point emitted for a marked pixel depends
\* only on the pixel's coordinates and on the image inside its 7 x 7
\* neighbourhood: an image that differs from the refined one at a pixel
\* outside the neighbourhood gives the same point, whatever the other
\* marked pixels are.
C30_PointIsLocal ==
    \A k \in PointIndices :
        LET pt == Points[k]
        IN  \A q \in OutsidePatch(refine_img, pt.src) :
                \A v \in Intensities :
                    LET other == Refine(Repainted(refine_img, q, v),
                                        pt.src[1], pt.src[2])
                    IN  other.x = pt.x /\ other.y = pt.y

\* C30's case: two marked pixels on a step, both refined from their
\* moments to different offsets, each with pixels of the image outside
\* its neighbourhood.
C30_Witness ==
    /\ pc = "done"
    /\ Len(Points) = 2
    /\ \A k \in PointIndices :
          /\ Points[k].via = "moments"
          /\ IsFinite(Points[k].x)
          /\ ~IsPixelItself(Points[k])
          /\ OutsidePatch(refine_img, Points[k].src) # {}
    /\ MovedX(Points[1]) # MovedX(Points[2])

=============================================================================
